---- MODULE Spec2Model ----
(***************************************************************************)
(* Model of the QuotableCardEditor custom element (card-editor.js, the     *)
(* snapshot with addRemoveSelectedItem / _initial_authors).                *)
(*                                                                         *)
(* JavaScript values that can be undefined or NaN are tagged records so    *)
(* that every comparison is between values of one kind:                    *)
(*   Undefined, NaN, Num(n), Arr(<<...>>).                                 *)
(* Strings the code parses (the interval value) are sequences of           *)
(* one-character strings, colours are such sequences tagged Str; names,    *)
(* slugs and queries are opaque strings.  Names and slugs are              *)
(* identifier-like (no quote, ampersand or angle bracket), so writing them *)
(* into a data-* attribute of the markup and reading them back through     *)
(* element.dataset yields the same string.                                 *)
(*                                                                         *)
(* The host may call setConfig and attach the element any number of times; *)
(* every attachment starts a run of loadOptions, and several runs may have *)
(* calls in flight at once.                                                *)
(*                                                                         *)
(* The remote transport serialises a message when callWS is called, so a   *)
(* logged call carries the value the arrays had at the call.               *)
(***************************************************************************)
EXTENDS Integers, Sequences, FiniteSets, TLC

\* ------------------------------------------------------------------ bounds
MaxOps == 2

\* ------------------------------------------------------------ JS values
Undefined == [t |-> "undefined"]
NaN == [t |-> "NaN"]
Num(n) == [t |-> "number", v |-> n]
Arr(s) == [t |-> "array", v |-> s]
Ack == [t |-> "object"]

Candidate(n, s) == [name |-> n, slug |-> s]
AuthorA == Candidate("A", "a")
AuthorB == Candidate("B", "b")
AuthorC == Candidate("C", "c")
TagT == Candidate("T", "t")
TagU == Candidate("U", "u")

Entity == "quotable.quotable"

\* ------------------------------------------------- environment (inputs)
\* Entity attributes the host store may report; each may be absent.
StoredAuthors == {Undefined, Arr(<<AuthorA, AuthorB>>)}
StoredTags == {Undefined, Arr(<<TagT>>)}
\* a string the model looks into, as the sequence of its characters
Str(chars) == [t |-> "string", v |-> chars]
Rgb(a, b, c, d, e, f) == Str(<<"#", a, b, c, d, e, f>>)

\* "#111" and "#222"
Color111 == Str(<<"#", "1", "1", "1">>)
Color222 == Str(<<"#", "2", "2", "2">>)
\* "#333333", "#000000", "#FFFFFF", "#abcdef"
Color333333 == Rgb("3", "3", "3", "3", "3", "3")
Color000000 == Rgb("0", "0", "0", "0", "0", "0")
ColorFFFFFF == Rgb("F", "F", "F", "F", "F", "F")
Colorabcdef == Rgb("a", "b", "c", "d", "e", "f")

StoredStyles == {Undefined, [t |-> "object", bg_color |-> Color111, text_color |-> Color222]}
StoredFrequency == {Num(570)}

StoredStates ==
  {Undefined} \cup
  { [t |-> "state",
     attributes |-> [selected_authors |-> a, selected_tags |-> g,
                     styles |-> s, update_frequency |-> f]] :
      a \in StoredAuthors, g \in StoredTags, s \in StoredStyles, f \in StoredFrequency }

Response(ok, d) == [t |-> "response", success |-> ok, data |-> d]

AuthorsResponses == {Response(TRUE, <<AuthorA, AuthorB>>)}
TagsResponses == {Response(TRUE, <<TagT, TagU>>)}
\* what the backend may answer to a search: for "b" author B or a failure,
\* for any other query authors C and A
SearchResponses(query) ==
  IF query = "b" THEN {Response(TRUE, <<AuthorB>>), Response(FALSE, <<AuthorC>>)}
  ELSE {Response(TRUE, <<AuthorC, AuthorA>>)}
UpdateResults == {Ack, Undefined}

Configs == {[entity |-> Entity], [entity |-> ""]}
Queries == {"", "b", "c"}
SliderValues == {<<"5">>, <<"1", "0">>}
ColorValues == {Color333333}

\* ------------------------------------------------------------- state
VARIABLES
  hass,               \* this._hass is set
  config,             \* this._config (Undefined before setConfig)
  states,             \* hass.states[entity] in the host store
  shared,             \* which selection arrays are the store's own array objects
  authors,            \* this._authors
  initial_authors,    \* this._initial_authors
  selectedAuthors,    \* this._selectedAuthors
  tags,               \* this._tags
  selectedTags,       \* this._selectedTags
  intervalValue,      \* this._intervalValue
  selectedBgColor,    \* this._selectedBgColor  (undefined until assigned)
  selectedTextColor,  \* this._selectedTextColor
  connected,          \* connectedCallback has run
  loadPc,             \* how far the latest step of a loadOptions run got
  rendered,           \* the form is in the shadow root
  authorSelect,       \* rows of <ul id="authorSelect">
  tagSelect,          \* rows of <ul id="tagSelect">
  selectedAuthorsEl,  \* chips of <div id="selectedAuthors">
  selectedTagsEl,     \* chips of <div id="selectedTags">
  controls,           \* values shown by the slider, its label and the two colour pickers
  log,                \* remote calls issued (with their status) and events dispatched, in order
  uncaught,           \* async functions whose promise rejected with nobody handling it
  ops,                \* number of user inputs so far
  hist                \* the most recent user inputs (toggles, with the state before them)

editor == <<authors, initial_authors, selectedAuthors, tags, selectedTags,
            intervalValue, selectedBgColor, selectedTextColor>>
dom == <<rendered, authorSelect, tagSelect, selectedAuthorsEl, selectedTagsEl, controls>>
host == <<hass, config, states, shared>>
vars == <<hass, config, states, shared, authors, initial_authors, selectedAuthors,
          tags, selectedTags, intervalValue, selectedBgColor, selectedTextColor,
          connected, loadPc, rendered, authorSelect, tagSelect, selectedAuthorsEl,
          selectedTagsEl, controls, log, uncaught, ops, hist>>

\* ------------------------------------------------------- pure helpers
Last(s) == s[Len(s)]
Range(s) == {s[i] : i \in 1..Len(s)}

\* Array.prototype.findIndex on slug; 0 stands for JavaScript's -1.
FindIndex(items, slug) ==
  IF \E i \in 1..Len(items) : items[i].slug = slug
    THEN CHOOSE i \in 1..Len(items) :
           /\ items[i].slug = slug
           /\ \A j \in 1..(i - 1) : items[j].slug # slug
    ELSE 0

\* mutant: splice(index), which removes every entry from index on
SpliceToEnd(items, index) == SubSeq(items, 1, index - 1)

\* mutant: the last entry is removed, as by pop()
SpliceLast(items, index) == SubSeq(items, 1, Len(items) - 1)

\* Array.prototype.splice(index, 1)
Splice(items, index) ==
  [k \in 1..(Len(items) - 1) |-> IF k < index THEN items[k] ELSE items[k + 1]]

isSelected(selectedList, selectedItem) ==
  \E i \in 1..Len(selectedList) : selectedList[i].slug = selectedItem.slug

\* <li class="selected|" data-name data-slug> for each candidate
RenderRows(list, selectedList) ==
  [i \in 1..Len(list) |->
     [name |-> list[i].name, slug |-> list[i].slug,
      selected |-> isSelected(selectedList, list[i])]]

\* <span data-name data-slug> for each selected item
RenderChips(selectedList) ==
  [i \in 1..Len(selectedList) |->
     [name |-> selectedList[i].name, slug |-> selectedList[i].slug]]

\* ------------------------------------------- number <-> string conversions
DigitChars == <<"0", "1", "2", "3", "4", "5", "6", "7", "8", "9">>
IsDigit(c) == \E d \in 1..10 : DigitChars[d] = c
DigitValue(c) == (CHOOSE d \in 1..10 : DigitChars[d] = c) - 1

\* length of the longest prefix of s made of decimal digits
RECURSIVE DigitPrefixLen(_)
DigitPrefixLen(s) ==
  IF s = <<>> \/ ~IsDigit(Head(s)) THEN 0 ELSE 1 + DigitPrefixLen(Tail(s))

RECURSIVE DigitsValue(_, _)
DigitsValue(s, acc) ==
  IF s = <<>> THEN acc ELSE DigitsValue(Tail(s), acc * 10 + DigitValue(Head(s)))

\* parseInt(string) in radix 10 on strings without leading blanks, sign or
\* 0x prefix: the value of the leading digits, NaN when there are none.
parseInt(s) ==
  LET n == DigitPrefixLen(s)
  IN  IF n = 0 THEN NaN ELSE Num(DigitsValue(SubSeq(s, 1, n), 0))

\* x * k for a number or NaN
Times(x, k) == IF x.t = "number" THEN Num(x.v * k) ELSE NaN

RECURSIVE NatToString(_)
NatToString(n) ==
  IF n < 10 THEN <<DigitChars[n + 1]>>
  ELSE NatToString(n \div 10) \o <<DigitChars[(n % 10) + 1]>>

\* decimal digits of r/den, 0 <= r < den, for a fraction that terminates
RECURSIVE FractionDigits(_, _)
FractionDigits(r, den) ==
  IF r = 0 THEN <<>>
  ELSE <<DigitChars[((r * 10) \div den) + 1]>> \o FractionDigits((r * 10) % den, den)

\* (x / den).toString() for a stored non-negative integer x, or undefined
DivToString(x, den) ==
  IF x.t # "number" THEN <<"N", "a", "N">>
  ELSE NatToString(x.v \div den) \o
       (IF x.v % den = 0 THEN <<>> ELSE <<".">> \o FractionDigits(x.v % den, den))

\* ------------------------------------------------ form control values
\* A decimal number as the markup can carry it here: digits, optionally
\* followed by a point and digits.
IsFloatString(s) ==
  LET n == DigitPrefixLen(s)
  IN  /\ n >= 1
      /\ \/ n = Len(s)
         \/ /\ n + 2 <= Len(s)
            /\ s[n + 1] = "."
            /\ DigitPrefixLen(SubSeq(s, n + 2, Len(s))) = Len(s) - n - 1

\* the integer nearest to the number written by s, halves going up
RoundFloatString(s) ==
  LET n == DigitPrefixLen(s)
      whole == DigitsValue(SubSeq(s, 1, n), 0)
  IN  IF n < Len(s) /\ DigitValue(s[n + 2]) >= 5 THEN whole + 1 ELSE whole

\* value sanitisation of <input type="range" min="1" max="60"> (line 239):
\* no number gives the default, the midpoint 30.5 stepped to 31; a number is
\* clamped to the range and stepped to an integer.
SanitizeRange(s) ==
  IF ~IsFloatString(s) THEN <<"3", "1">>
  ELSE LET r == RoundFloatString(s)
       IN  NatToString(IF r < 1 THEN 1 ELSE IF r > 60 THEN 60 ELSE r)

HexChars ==
  {"0", "1", "2", "3", "4", "5", "6", "7", "8", "9",
   "a", "b", "c", "d", "e", "f", "A", "B", "C", "D", "E", "F"}

ToLowerCase(ch) ==
  CASE ch = "A" -> "a" [] ch = "B" -> "b" [] ch = "C" -> "c"
    [] ch = "D" -> "d" [] ch = "E" -> "e" [] ch = "F" -> "f"
    [] OTHER -> ch

\* a valid simple colour: "#" followed by six hexadecimal digits
IsSimpleColor(chars) ==
  /\ Len(chars) = 7
  /\ chars[1] = "#"
  /\ \A i \in 2..7 : chars[i] \in HexChars

\* value sanitisation of <input type="color"> (lines 177-183): a valid
\* simple colour in lower case, else "#000000"; an undefined field is
\* written into the markup as the text "undefined", which is no colour
SanitizeColor(c) ==
  IF c.t = "string" /\ IsSimpleColor(c.v)
    THEN Str([i \in 1..7 |-> ToLowerCase(c.v[i])])
    ELSE Color000000

\* the controls before the form exists
NoControls ==
  [slider |-> <<>>, label |-> <<>>, bgColorPicker |-> Str(<<>>),
   textColorPicker |-> Str(<<>>)]

\* lines 177-183 and 239-242: the values the controls take from the markup
RenderControls(interval, bg, text) ==
  [slider |-> SanitizeRange(interval), label |-> interval,
   bgColorPicker |-> SanitizeColor(bg), textColorPicker |-> SanitizeColor(text)]

\* ------------------------------------------------------------ the log
Call(service, returnResponse, data, cause) ==
  [kind |-> "call",
   msg |-> [domain |-> "quotable", service |-> service, type |-> "call_service",
            return_response |-> returnResponse, service_data |-> data],
   st |-> "pending", res |-> Undefined, cause |-> cause]

ConfigChanged(cfg, cause) ==
  [kind |-> "event", type |-> "config-changed", detail |-> [config |-> cfg],
   bubbles |-> TRUE, composed |-> TRUE, cause |-> cause]

IsCall(e, service) == e.kind = "call" /\ e.msg.service = service
Pending(k, service) == k \in 1..Len(log) /\ IsCall(log[k], service) /\ log[k].st = "pending"
Settle(k, status, result) == [log EXCEPT ![k].st = status, ![k].res = result]

\* -------------------------------------------------------------- Init
\* the editor as the constructor leaves it (lines 2-13), unbound and detached
constructor ==
  /\ hass = FALSE
  /\ config = Undefined
  /\ shared = {}
  /\ authors = <<>>
  /\ initial_authors = <<>>
  /\ selectedAuthors = Arr(<<>>)
  /\ tags = <<>>
  /\ selectedTags = Arr(<<>>)
  /\ intervalValue = <<>>
  /\ selectedBgColor = Undefined
  /\ selectedTextColor = Undefined
  /\ connected = FALSE
  /\ loadPc = "init"
  /\ rendered = FALSE
  /\ authorSelect = <<>>
  /\ tagSelect = <<>>
  /\ selectedAuthorsEl = <<>>
  /\ selectedTagsEl = <<>>
  /\ controls = NoControls
  /\ log = <<>>
  /\ uncaught = {}
  /\ ops = 0
  /\ hist = <<>>

Init ==
  /\ states \in StoredStates
  /\ constructor

\* ---------------------------------------------------------- lifecycle
\* An event that may come again and again counts as an input from its
\* second occurrence on, so that MaxOps bounds the run.
Again(repeated, op) ==
  IF repeated
    THEN ops < MaxOps /\ ops' = ops + 1 /\ hist' = <<[op |-> op]>>
    ELSE UNCHANGED <<ops, hist>>

\* set hass (lines 16-18)
setHass ==
  /\ hass' = TRUE
  /\ UNCHANGED <<config, states, shared, editor, connected, loadPc, dom, log,
                 uncaught, ops, hist>>

\* setConfig (lines 21-23): the config is replaced on every call
setConfig(c) ==
  /\ config' = [t |-> "object", entity |-> c.entity]
  /\ Again(config # Undefined /\ config' # config, "config")
  /\ UNCHANGED <<hass, states, shared, editor, connected, loadPc, dom, log, uncaught>>

\* loadOptions up to its first await (lines 36-76).  An entity of "" stands
\* for a config without an entity.  A TypeError inside the try block is
\* caught and ends the load; the assignments made before it stay.
loadOptions ==
  LET noConfig == config = Undefined
      noEntity == ~noConfig /\ config.entity = ""
      noHass == ~noConfig /\ ~noEntity /\ ~hass
      early == noConfig \/ noEntity \/ noHass
      present == ~early /\ states # Undefined
      attrs == states.attributes
      noStyles == present /\ attrs.styles = Undefined
  IN  /\ selectedAuthors' = IF present THEN attrs.selected_authors ELSE selectedAuthors
      /\ selectedTags' = IF present THEN attrs.selected_tags ELSE selectedTags
      /\ shared' = IF present
                     THEN {l \in {"authors", "tags"} :
                             (IF l = "authors" THEN attrs.selected_authors
                                               ELSE attrs.selected_tags).t = "array"}
                     ELSE shared
      /\ selectedBgColor' = IF present /\ ~noStyles THEN attrs.styles.bg_color
                                                    ELSE selectedBgColor
      /\ selectedTextColor' = IF present /\ ~noStyles THEN attrs.styles.text_color
                                                      ELSE selectedTextColor
      /\ intervalValue' = IF present /\ ~noStyles
                            THEN DivToString(attrs.update_frequency, 60)
                            ELSE intervalValue
      /\ IF early \/ noStyles
           THEN /\ loadPc' = "aborted"
                /\ log' = log
           ELSE /\ loadPc' = "authors"
                /\ log' = Append(log, Call("fetch_all_authors", TRUE,
                                           [entity_id |-> config.entity], 0))
      /\ UNCHANGED <<hass, config, states, authors, initial_authors, tags, dom,
                     uncaught>>

\* connectedCallback (lines 26-28): every attachment starts a load
connectedCallback ==
  /\ connected' = TRUE
  /\ Again(connected, "attach")
  /\ loadOptions

\* renderForm (lines 95-312): the markup is built from the current fields.
\* Mapping over an undefined selection throws before innerHTML is assigned.
RenderThrows == selectedAuthors' = Undefined \/ selectedTags' = Undefined

renderForm ==
  /\ rendered' = TRUE
  /\ selectedAuthorsEl' = RenderChips(selectedAuthors'.v)
  /\ authorSelect' = RenderRows(authors', selectedAuthors'.v)
  /\ selectedTagsEl' = RenderChips(selectedTags'.v)
  /\ tagSelect' = RenderRows(tags', selectedTags'.v)
  /\ controls' = RenderControls(intervalValue', selectedBgColor', selectedTextColor')

\* fetch_all_authors resolves: lines 76-84, up to the second await.  The tag
\* message was built before the first await (lines 67-73) around the same
\* serviceData object as the author message (lines 53-55), so it names the
\* entity of the run's start, whatever setConfig stored since.
loadAuthorsResolve(k, r) ==
  /\ Pending(k, "fetch_all_authors")
  /\ authors' = IF r.success THEN r.data ELSE <<>>
  /\ initial_authors' = authors'
  /\ log' = Append(Settle(k, "resolved", r),
                   Call("fetch_all_tags", TRUE, log[k].msg.service_data, k))
  /\ loadPc' = "tags"
  /\ UNCHANGED <<host, selectedAuthors, tags, selectedTags, intervalValue,
                 selectedBgColor, selectedTextColor, connected, dom, uncaught, ops, hist>>

\* fetch_all_tags resolves: lines 84-91
loadTagsResolve(k, r) ==
  /\ Pending(k, "fetch_all_tags")
  /\ tags' = IF r.success THEN r.data ELSE <<>>
  /\ log' = Settle(k, "resolved", r)
  /\ UNCHANGED <<host, authors, initial_authors, selectedAuthors, selectedTags,
                 intervalValue, selectedBgColor, selectedTextColor, connected, ops, hist>>
  /\ IF RenderThrows
       THEN /\ loadPc' = "crashed"
            /\ uncaught' = uncaught \cup {"loadOptions"}
            /\ UNCHANGED dom
       ELSE /\ loadPc' = "ready"
            /\ renderForm
            /\ UNCHANGED uncaught

\* mutant: no catch, the rejection escapes loadOptions
loadRejectEscapes(k) ==
  /\ Pending(k, "fetch_all_authors") \/ Pending(k, "fetch_all_tags")
  /\ log' = Settle(k, "rejected", Undefined)
  /\ loadPc' = "aborted"
  /\ uncaught' = uncaught \cup {"loadOptions"}
  /\ UNCHANGED <<host, editor, connected, dom, ops, hist>>

\* either load call rejects: the catch of lines 86-88
loadReject(k) ==
  /\ Pending(k, "fetch_all_authors") \/ Pending(k, "fetch_all_tags")
  /\ log' = Settle(k, "rejected", Undefined)
  /\ loadPc' = "aborted"
  /\ UNCHANGED <<host, editor, connected, dom, uncaught, ops, hist>>


\* ------------------------------------------------- selection toggle
\* The data the clicked element carries: a row of the list, a chip of the
\* summary, or an element without data-slug (the list or the summary itself).
Dataset(target, chipsEl, rowsEl) ==
  IF target.where = "row" THEN Candidate(rowsEl[target.idx].name, rowsEl[target.idx].slug)
  ELSE Candidate(chipsEl[target.idx].name, chipsEl[target.idx].slug)

\* mutant: the entry is pushed without looking for it
ToggleItemsPush(items, dataset) == Append(items, Candidate(dataset.name, dataset.slug))

\* mutant: the first entry with the slug is kept and the entry before it goes
ToggleItemsOffByOne(items, dataset) ==
  LET index == FindIndex(items, dataset.slug)
  IN  IF index >= 1
        THEN [k \in 1..(Len(items) - 1) |->
                IF k < (IF index > 1 THEN index - 1 ELSE 1) THEN items[k] ELSE items[k + 1]]
        ELSE Append(items, Candidate(dataset.name, dataset.slug))

\* lines 320-324 and 332-335: remove the entry found, else push {name, slug}
ToggleItems(items, dataset) ==
  LET index == FindIndex(items, dataset.slug)
  IN  IF index >= 1 THEN Splice(items, index)
      ELSE Append(items, Candidate(dataset.name, dataset.slug))

\* mutant: on removal only the clicked element loses the marker
ToggleRowsClicked(items, target, dataset, rowsEl) ==
  IF target.where = "row"
    THEN [rowsEl EXCEPT ![target.idx].selected = (FindIndex(items, dataset.slug) = 0)]
    ELSE rowsEl

\* lines 325-330 and 336: on removal clear the marker of every row with the
\* slug; on addition mark the clicked element
ToggleRows(items, target, dataset, rowsEl) ==
  IF FindIndex(items, dataset.slug) >= 1
    THEN [i \in 1..Len(rowsEl) |->
            IF rowsEl[i].slug = dataset.slug
              THEN [rowsEl[i] EXCEPT !.selected = FALSE] ELSE rowsEl[i]]
    ELSE IF target.where = "row"
           THEN [rowsEl EXCEPT ![target.idx].selected = TRUE]
           ELSE rowsEl

\* mutant: the summary is patched, a chip added for a pushed entry
ToggleChipsPatched(newItems, chipsEl) ==
  IF Len(newItems) > Len(chipsEl)
    THEN Append(chipsEl, [name |-> Last(newItems).name, slug |-> Last(newItems).slug])
    ELSE chipsEl

\* lines 339-344: the summary is rebuilt from the updated array
ToggleChips(newItems, chipsEl) == RenderChips(newItems)

\* mutant: no guard on a missing data-slug; undefined is pushed as an entry
addRemoveSelectedItemNoGuard(items, target, chipsEl, rowsEl) ==
  IF target.where = "none"
    THEN [items |-> Append(items, Candidate("undefined", "undefined")),
          rows |-> rowsEl,
          chips |-> RenderChips(Append(items, Candidate("undefined", "undefined"))),
          save |-> TRUE]
    ELSE LET dataset == Dataset(target, chipsEl, rowsEl)
             newItems == ToggleItems(items, dataset)
         IN  [items |-> newItems,
              rows |-> ToggleRows(items, target, dataset, rowsEl),
              chips |-> ToggleChips(newItems, chipsEl),
              save |-> TRUE]

\* lines 315-347 without the save: the new array, rows and summary
addRemoveSelectedItem(items, target, chipsEl, rowsEl) ==
  IF target.where = "none"
    THEN [items |-> items, rows |-> rowsEl, chips |-> chipsEl, save |-> FALSE]
    ELSE LET dataset == Dataset(target, chipsEl, rowsEl)
             newItems == ToggleItems(items, dataset)
         IN  [items |-> newItems,
              rows |-> ToggleRows(items, target, dataset, rowsEl),
              chips |-> ToggleChips(newItems, chipsEl),
              save |-> TRUE]

Targets(chipsEl, rowsEl) ==
  {[where |-> "none", idx |-> 0]} \cup
  {[where |-> "row", idx |-> i] : i \in 1..Len(rowsEl)} \cup
  {[where |-> "chip", idx |-> i] : i \in 1..Len(chipsEl)}

\* ------------------------------------------------ configuration sync
\* mutant: the payload is built from the selections as they were before
UpdateConfigDataStale ==
  [entity_id |-> config.entity,
   selected_tags |-> selectedTags,
   selected_authors |-> selectedAuthors,
   update_frequency |-> Times(parseInt(intervalValue'), 60),
   styles |-> [bg_color |-> selectedBgColor', text_color |-> selectedTextColor']]

\* mutant: the authors are sent in reverse order
UpdateConfigDataReversed ==
  [entity_id |-> config.entity,
   selected_tags |-> selectedTags',
   selected_authors |->
     Arr([i \in 1..Len(selectedAuthors'.v) |->
            selectedAuthors'.v[Len(selectedAuthors'.v) + 1 - i]]),
   update_frequency |-> Times(parseInt(intervalValue'), 60),
   styles |-> [bg_color |-> selectedBgColor', text_color |-> selectedTextColor']]

\* lines 399-408
UpdateConfigData ==
  [entity_id |-> config.entity,
   selected_tags |-> selectedTags',
   selected_authors |-> selectedAuthors',
   update_frequency |-> Times(parseInt(intervalValue'), 60),
   styles |-> [bg_color |-> selectedBgColor', text_color |-> selectedTextColor']]

\* mutant: the call asks for a response
updateConfigurationWithResponse ==
  log' = Append(log, Call("update_configuration", TRUE, UpdateConfigData, 0))

\* updateConfiguration up to its await (lines 398-419)
updateConfiguration ==
  log' = Append(log, Call("update_configuration", FALSE, UpdateConfigData, 0))

\* what hist remembers of a click: the state it found
Click(list, target, items, chipsEl, rowsEl) ==
  [op |-> IF target.where = "none" THEN "noslug" ELSE "toggle",
   list |-> list,
   slug |-> IF target.where = "none" THEN "" ELSE Dataset(target, chipsEl, rowsEl).slug,
   items |-> items, rows |-> rowsEl, chips |-> chipsEl]

Remember(h, c) == IF Len(h) < 2 THEN Append(h, c) ELSE <<h[2], c>>

\* what hist remembers of an input that is not a click on a list
Input(op, query, items, rowsEl) ==
  [op |-> op, list |-> "", slug |-> "", items |-> items, rows |-> rowsEl, chips |-> <<>>,
   query |-> query]

\* a selection array that is the store's own array changes in the store too
StoreAfter(list, newItems) ==
  IF list \in shared
    THEN IF list = "authors"
           THEN [states EXCEPT !.attributes.selected_authors = Arr(newItems)]
           ELSE [states EXCEPT !.attributes.selected_tags = Arr(newItems)]
    ELSE states

\* click on #authorSelect or #selectedAuthors (lines 263-271, 288-289)
handleAuthorSelectClickEvent(target) ==
  /\ rendered
  /\ ops < MaxOps
  /\ target \in Targets(selectedAuthorsEl, authorSelect)
  /\ LET r == addRemoveSelectedItem(selectedAuthors.v, target, selectedAuthorsEl, authorSelect)
     IN  /\ selectedAuthors' = Arr(r.items)
         /\ authorSelect' = r.rows
         /\ selectedAuthorsEl' = r.chips
         /\ states' = StoreAfter("authors", r.items)
         /\ UNCHANGED <<hass, config, shared, authors, initial_authors, tags,
                        selectedTags, intervalValue, selectedBgColor, selectedTextColor,
                        connected, loadPc, rendered, tagSelect, selectedTagsEl, controls,
                        uncaught>>
         /\ IF r.save THEN updateConfiguration ELSE log' = log
  /\ ops' = ops + 1
  /\ hist' = Remember(hist, Click("authors", target, selectedAuthors.v,
                                  selectedAuthorsEl, authorSelect))

\* click on #tagSelect or #selectedTags (lines 273-281, 292-293)
handleTagSelectClickEvent(target) ==
  /\ rendered
  /\ ops < MaxOps
  /\ target \in Targets(selectedTagsEl, tagSelect)
  /\ LET r == addRemoveSelectedItem(selectedTags.v, target, selectedTagsEl, tagSelect)
     IN  /\ selectedTags' = Arr(r.items)
         /\ tagSelect' = r.rows
         /\ selectedTagsEl' = r.chips
         /\ states' = StoreAfter("tags", r.items)
         /\ UNCHANGED <<hass, config, shared, authors, initial_authors, tags,
                        selectedAuthors, intervalValue, selectedBgColor, selectedTextColor,
                        connected, loadPc, rendered, authorSelect, selectedAuthorsEl,
                        controls, uncaught>>
         /\ IF r.save THEN updateConfiguration ELSE log' = log
  /\ ops' = ops + 1
  /\ hist' = Remember(hist, Click("tags", target, selectedTags.v,
                                  selectedTagsEl, tagSelect))

\* ------------------------------------------------------------ search
\* lines 375-390: the rows are replaced by the current author list
SearchRows(list, selectedList) == RenderRows(list, selectedList)

\* mutant: the empty query keeps the list as it is
RestoredAuthorsCurrent == authors

\* lines 365-366: the list an empty query brings back
RestoredAuthors == initial_authors

\* keyup in #authorInput: searchAuthor up to its await (lines 284-286, 350-368)
searchAuthor(query) ==
  /\ rendered
  /\ ops < MaxOps
  /\ IF query = ""
       THEN /\ authors' = RestoredAuthors
            /\ authorSelect' = SearchRows(authors', selectedAuthors.v)
            /\ log' = log
       ELSE /\ log' = Append(log, Call("search_authors", TRUE,
                                       [entity_id |-> config.entity, query |-> query], 0))
            /\ UNCHANGED <<authors, authorSelect>>
  /\ ops' = ops + 1
  /\ hist' = <<Input(IF query = "" THEN "restore" ELSE "search", query, authors,
                     authorSelect)>>
  /\ UNCHANGED <<host, initial_authors, selectedAuthors, tags, selectedTags,
                 intervalValue, selectedBgColor, selectedTextColor, connected, loadPc,
                 rendered, tagSelect, selectedAuthorsEl, selectedTagsEl, controls, uncaught>>

\* mutant: the data is taken whatever the response reports
SearchResultUnchecked(r) == r.data

\* lines 370-372: the data of a successful response, else the empty list
SearchResult(r) == IF r.success THEN r.data ELSE <<>>

\* mutant: a result is dropped when a later search has been issued
searchResolveLatestOnly(k, r) ==
  /\ Pending(k, "search_authors")
  /\ IF \E j \in (k + 1)..Len(log) : IsCall(log[j], "search_authors")
       THEN UNCHANGED <<authors, authorSelect>>
       ELSE /\ authors' = SearchResult(r)
            /\ authorSelect' = SearchRows(authors', selectedAuthors.v)
  /\ log' = Settle(k, "resolved", r)
  /\ hist' = <<>>
  /\ UNCHANGED <<host, initial_authors, selectedAuthors, tags, selectedTags,
                 intervalValue, selectedBgColor, selectedTextColor, connected, loadPc,
                 rendered, tagSelect, selectedAuthorsEl, selectedTagsEl, controls, uncaught,
                 ops>>

\* search_authors resolves: lines 368-390
searchResolve(k, r) ==
  /\ Pending(k, "search_authors")
  /\ authors' = SearchResult(r)
  /\ authorSelect' = SearchRows(authors', selectedAuthors.v)
  /\ log' = Settle(k, "resolved", r)
  /\ hist' = <<>>
  /\ UNCHANGED <<host, initial_authors, selectedAuthors, tags, selectedTags,
                 intervalValue, selectedBgColor, selectedTextColor, connected, loadPc,
                 rendered, tagSelect, selectedAuthorsEl, selectedTagsEl, controls, uncaught,
                 ops>>

\* mutant: the list is emptied when the search fails
searchRejectClears(k) ==
  /\ Pending(k, "search_authors")
  /\ log' = Settle(k, "rejected", Undefined)
  /\ hist' = <<>>
  /\ authors' = <<>>
  /\ authorSelect' = <<>>
  /\ UNCHANGED <<host, initial_authors, selectedAuthors, tags, selectedTags,
                 intervalValue, selectedBgColor, selectedTextColor, connected, loadPc,
                 rendered, tagSelect, selectedAuthorsEl, selectedTagsEl, controls, uncaught,
                 ops>>

\* search_authors rejects: the catch of lines 391-393
searchReject(k) ==
  /\ Pending(k, "search_authors")
  /\ log' = Settle(k, "rejected", Undefined)
  /\ hist' = <<>>
  /\ UNCHANGED <<host, editor, connected, loadPc, dom, uncaught, ops>>

\* ------------------------------------------------- the other controls
\* what hist remembers of an input event of the slider or of a colour picker
Value(op, value) == [op |-> op, value |-> value]

\* mutant: the label follows the slider, the interval field does not
sliderInputLabelOnly(v) ==
  /\ rendered
  /\ ops < MaxOps
  /\ controls' = [controls EXCEPT !.slider = v, !.label = v]
  /\ ops' = ops + 1
  /\ hist' = <<Value("slider", v)>>
  /\ UNCHANGED <<host, authors, initial_authors, selectedAuthors, tags, selectedTags,
                 intervalValue, selectedBgColor, selectedTextColor, connected, loadPc,
                 rendered, authorSelect, tagSelect, selectedAuthorsEl, selectedTagsEl, log,
                 uncaught>>

\* input on #slider (lines 296-299)
sliderInput(v) ==
  /\ rendered
  /\ ops < MaxOps
  /\ intervalValue' = v
  /\ controls' = [controls EXCEPT !.slider = v, !.label = v]
  /\ ops' = ops + 1
  /\ hist' = <<Value("slider", v)>>
  /\ UNCHANGED <<host, authors, initial_authors, selectedAuthors, tags, selectedTags,
                 selectedBgColor, selectedTextColor, connected, loadPc, rendered,
                 authorSelect, tagSelect, selectedAuthorsEl, selectedTagsEl, log, uncaught>>

\* mutant: the picker moves, the colour field keeps its value
bgColorInputDropped(c) ==
  /\ rendered
  /\ ops < MaxOps
  /\ controls' = [controls EXCEPT !.bgColorPicker = c]
  /\ ops' = ops + 1
  /\ hist' = <<Value("bgcolor", c)>>
  /\ UNCHANGED <<host, authors, initial_authors, selectedAuthors, tags, selectedTags,
                 intervalValue, selectedBgColor, selectedTextColor, connected, loadPc,
                 rendered, authorSelect, tagSelect, selectedAuthorsEl, selectedTagsEl, log,
                 uncaught>>

\* input on #backgroundColorPicker (lines 302-304)
bgColorInput(c) ==
  /\ rendered
  /\ ops < MaxOps
  /\ selectedBgColor' = c
  /\ controls' = [controls EXCEPT !.bgColorPicker = c]
  /\ ops' = ops + 1
  /\ hist' = <<Value("bgcolor", c)>>
  /\ UNCHANGED <<host, authors, initial_authors, selectedAuthors, tags, selectedTags,
                 intervalValue, selectedTextColor, connected, loadPc, rendered,
                 authorSelect, tagSelect, selectedAuthorsEl, selectedTagsEl, log, uncaught>>

\* input on #textColorPicker (lines 306-308)
textColorInput(c) ==
  /\ rendered
  /\ ops < MaxOps
  /\ selectedTextColor' = c
  /\ controls' = [controls EXCEPT !.textColorPicker = c]
  /\ ops' = ops + 1
  /\ hist' = <<Value("textcolor", c)>>
  /\ UNCHANGED <<host, authors, initial_authors, selectedAuthors, tags, selectedTags,
                 intervalValue, selectedBgColor, connected, loadPc, rendered,
                 authorSelect, tagSelect, selectedAuthorsEl, selectedTagsEl, log, uncaught>>

\* focusout on the form (line 311)
focusOut ==
  /\ rendered
  /\ ops < MaxOps
  /\ UNCHANGED <<host, editor, connected, loadPc, dom, uncaught>>
  /\ updateConfiguration
  /\ ops' = ops + 1
  /\ hist' = <<Input("focusout", "", <<>>, <<>>)>>

\* ------------------------------------- completion of the remote calls
\* mutant: the call asks for no response
fetchQuoteNoResponse(cause) ==
  Call("fetch_a_quote", FALSE, [entity_id |-> config.entity], cause)

\* lines 438-452: fetchQuote up to its await
fetchQuote(cause) == Call("fetch_a_quote", TRUE, [entity_id |-> config.entity], cause)

\* mutant: the response is not looked at
AfterUpdateUnchecked(k, r) == <<ConfigChanged(config, k), fetchQuote(k)>>

\* lines 421-431: what follows the resolved update call
AfterUpdate(k, r) ==
  IF r # Undefined
    THEN <<ConfigChanged(config, k), fetchQuote(k)>>
    ELSE <<>>

\* update_configuration resolves with r
updateResolve(k, r) ==
  /\ Pending(k, "update_configuration")
  /\ log' = Settle(k, "resolved", r) \o AfterUpdate(k, r)
  /\ UNCHANGED <<host, editor, connected, loadPc, dom, uncaught, ops, hist>>

\* mutant: no catch, the rejection escapes updateConfiguration
updateRejectEscapes(k) ==
  /\ Pending(k, "update_configuration")
  /\ log' = Settle(k, "rejected", Undefined)
  /\ uncaught' = uncaught \cup {"updateConfiguration"}
  /\ UNCHANGED <<host, editor, connected, loadPc, dom, ops, hist>>

\* update_configuration rejects: the catch of lines 432-434
updateReject(k) ==
  /\ Pending(k, "update_configuration")
  /\ log' = Settle(k, "rejected", Undefined)
  /\ UNCHANGED <<host, editor, connected, loadPc, dom, uncaught, ops, hist>>

\* mutant: the response of the quote refresh resets the selections
fetchResolveResets(k) ==
  /\ Pending(k, "fetch_a_quote")
  /\ log' = Settle(k, "resolved", Response(TRUE, <<>>))
  /\ selectedAuthors' = Arr(<<>>)
  /\ selectedTags' = Arr(<<>>)
  /\ UNCHANGED <<host, authors, initial_authors, tags, intervalValue, selectedBgColor,
                 selectedTextColor, connected, loadPc, dom, uncaught, ops, hist>>

\* fetch_a_quote resolves: nothing follows the await of line 452
fetchResolve(k) ==
  /\ Pending(k, "fetch_a_quote")
  /\ log' = Settle(k, "resolved", Response(TRUE, <<>>))
  /\ UNCHANGED <<host, editor, connected, loadPc, dom, uncaught, ops, hist>>

\* fetch_a_quote rejects: fetchQuote has no catch and nobody awaits it
fetchReject(k) ==
  /\ Pending(k, "fetch_a_quote")
  /\ log' = Settle(k, "rejected", Undefined)
  /\ uncaught' = uncaught \cup {"fetchQuote"}
  /\ UNCHANGED <<host, editor, connected, loadPc, dom, ops, hist>>

\* --------------------------------------------------- specification
\* the answers the backend may give to call k, if it is a search
SearchAnswers(k) ==
  IF IsCall(log[k], "search_authors")
    THEN SearchResponses(log[k].msg.service_data.query)
    ELSE {}

\* Calls of the two setters that would store what is stored already change
\* nothing and are left out of the exploration.
NewConfigs == {c \in Configs : config = Undefined \/ c.entity # config.entity}

Next ==
  \/ ~hass /\ setHass
  \/ \E c \in NewConfigs : setConfig(c)
  \/ connectedCallback
  \/ \E k \in 1..Len(log), r \in AuthorsResponses : loadAuthorsResolve(k, r)
  \/ \E k \in 1..Len(log), r \in TagsResponses : loadTagsResolve(k, r)
  \/ \E k \in 1..Len(log) : loadReject(k)
  \/ \E t \in Targets(selectedAuthorsEl, authorSelect) : handleAuthorSelectClickEvent(t)
  \/ \E t \in Targets(selectedTagsEl, tagSelect) : handleTagSelectClickEvent(t)
  \/ \E q \in Queries : searchAuthor(q)
  \/ \E k \in 1..Len(log) : \E r \in SearchAnswers(k) : searchResolve(k, r)
  \/ \E k \in 1..Len(log) : searchReject(k)
  \/ \E v \in SliderValues : sliderInput(v)
  \/ \E c \in ColorValues : bgColorInput(c)
  \/ \E c \in ColorValues : textColorInput(c)
  \/ focusOut
  \/ \E k \in 1..Len(log), r \in UpdateResults : updateResolve(k, r)
  \/ \E k \in 1..Len(log) : updateReject(k)
  \/ \E k \in 1..Len(log) : fetchResolve(k)
  \/ \E k \in 1..Len(log) : fetchReject(k)

Spec == Init /\ [][Next]_vars

\* ------------------------------------------- the load, on its own
\* Stored states of the entity and answers of the backend in more variety: a
\* selection of one author, colours written with six hexadecimal digits, no
\* interval or a whole number of minutes, answers that report no success.
LoadAuthors == StoredAuthors \cup {Arr(<<AuthorA>>)}
LoadStyles ==
  StoredStyles \cup {[t |-> "object", bg_color |-> ColorFFFFFF, text_color |-> Colorabcdef]}
LoadFrequency == StoredFrequency \cup {Undefined, Num(600)}
LoadAuthorsResponses == AuthorsResponses \cup {Response(FALSE, <<AuthorC>>)}
LoadTagsResponses == TagsResponses \cup {Response(FALSE, <<TagT>>)}

LoadStates ==
  {Undefined} \cup
  { [t |-> "state",
     attributes |-> [selected_authors |-> a, selected_tags |-> g,
                     styles |-> s, update_frequency |-> f]] :
      a \in LoadAuthors, g \in StoredTags, s \in LoadStyles, f \in LoadFrequency }

InitLoad ==
  /\ states \in LoadStates
  /\ constructor

NextLoad ==
  \/ ~hass /\ setHass
  \/ \E c \in NewConfigs : setConfig(c)
  \/ connectedCallback
  \/ \E k \in 1..Len(log), r \in LoadAuthorsResponses : loadAuthorsResolve(k, r)
  \/ \E k \in 1..Len(log), r \in LoadTagsResponses : loadTagsResolve(k, r)
  \/ \E k \in 1..Len(log) : loadReject(k)

SpecLoad == InitLoad /\ [][NextLoad]_vars

\* =================================================================
\* Properties
\* =================================================================
Slugs(items) == [i \in 1..Len(items) |-> items[i].slug]
NoDuplicateSlug(items) ==
  \A i, j \in 1..Len(items) : items[i].slug = items[j].slug => i = j

\* the rows' markers agree with membership in the selection
RowsMatch(rowsEl, items) ==
  \A i \in 1..Len(rowsEl) :
    rowsEl[i].selected <=> (\E j \in 1..Len(items) : items[j].slug = rowsEl[i].slug)

ResolvedSearch == \E k \in 1..Len(log) : IsCall(log[k], "search_authors") /\ log[k].st = "resolved"
LastIsToggle == hist # <<>> /\ Last(hist).op = "toggle"

\* C1: once the form is rendered, a row of the author (tag) list carries the
\* "selected" marker exactly when its slug is in the author (tag) selection.
C1_NoDrift ==
  rendered =>
    /\ RowsMatch(authorSelect, selectedAuthors.v)
    /\ RowsMatch(tagSelect, selectedTags.v)

\* C1 witness: after a search has replaced the rows and an author was toggled
\* from its chip, some row is marked and some row is not.
C1_Witness ==
  /\ rendered
  /\ ResolvedSearch
  /\ LastIsToggle /\ Last(hist).list = "authors"
  /\ Last(hist).slug \in Range(Slugs(Last(hist).chips))
  /\ \E i \in 1..Len(authorSelect) : authorSelect[i].selected
  /\ \E i \in 1..Len(authorSelect) : ~authorSelect[i].selected

\* C2: neither selection sequence ever holds two entries with one slug.
C2_NoDuplicates ==
  /\ selectedAuthors # Undefined => NoDuplicateSlug(selectedAuthors.v)
  /\ selectedTags # Undefined => NoDuplicateSlug(selectedTags.v)

\* C2 witness: a toggle has just added an entry to a selection loaded from
\* the store, which now holds two entries.
C2_Witness ==
  /\ LastIsToggle
  /\ Last(hist).list = "tags"
  /\ "tags" \in shared
  /\ Len(selectedTags.v) = 2
  /\ Len(Last(hist).items) = 1

\* ---------------------------------------------- vocabulary of C3..C10
Sel(list) == IF list = "authors" THEN selectedAuthors.v ELSE selectedTags.v
SelAfter(list) == IF list = "authors" THEN selectedAuthors'.v ELSE selectedTags'.v
RowsOf(list) == IF list = "authors" THEN authorSelect ELSE tagSelect
ChipsOf(list) == IF list = "authors" THEN selectedAuthorsEl ELSE selectedTagsEl

IsUpdate(e) == IsCall(e, "update_configuration")
Saves == SelectSeq(log, IsUpdate)
Payload(e) == e.msg.service_data

\* the step is a click that carried a slug / carried none
ToggleStep == ops' = ops + 1 /\ hist' # <<>> /\ Last(hist').op = "toggle"
NoSlugStep == ops' = ops + 1 /\ hist' # <<>> /\ Last(hist').op = "noslug"

\* the last two user inputs were toggles of one item of one list
IsTogglePair ==
  /\ Len(hist) = 2
  /\ hist[1].op = "toggle" /\ hist[2].op = "toggle"
  /\ hist[1].list = hist[2].list
  /\ hist[1].slug = hist[2].slug

\* a payload list made of the selection's entries / of identifiers alone
\* (an entry that is nothing but a slug is written [slug |-> s])
Entries(items) == Arr(items)
Identifiers(items) == Arr([i \in 1..Len(items) |-> [slug |-> items[i].slug]])

\* a toggle step appends exactly one update_configuration call, built from
\* the selection as the toggle left it
SavesAfterToggle(Shape(_)) ==
  ToggleStep =>
    /\ SelAfter(Last(hist').list) # Last(hist').items
    /\ Len(log') = Len(log) + 1
    /\ SubSeq(log', 1, Len(log)) = log
    /\ IsUpdate(Last(log'))
    /\ Last(log').st = "pending"
    /\ Payload(Last(log')).selected_authors = Shape(selectedAuthors'.v)
    /\ Payload(Last(log')).selected_tags = Shape(selectedTags'.v)

\* load, then two clicks on row a of an empty author selection
TwoClicksOnA ==
  /\ ops = 2
  /\ IsTogglePair
  /\ hist[1].list = "authors" /\ hist[1].slug = "a" /\ hist[1].items = <<>>

TwoSaves(Shape(_)) ==
  TwoClicksOnA =>
    /\ selectedAuthors = Arr(<<>>)
    /\ Len(Saves) = 2
    /\ Payload(Saves[1]).selected_authors = Shape(<<AuthorA>>)
    /\ Payload(Saves[2]).selected_authors = Shape(<<>>)

\* C3 as stated: every toggle issues exactly one update_configuration call
\* after updating the selection, carrying the slugs of the post-toggle
\* selections; two clicks on row a issue two saves, with [a] and then [].
C3_SlugPayload == [](TwoSaves(Identifiers)) /\ [][SavesAfterToggle(Identifiers)]_vars

\* C3 amended: the same, with the selections' {name, slug} entries as payload.
C3_EntryPayload == [](TwoSaves(Entries)) /\ [][SavesAfterToggle(Entries)]_vars

\* C3 witness: the two clicks on row a happened.
C3_Witness == TwoClicksOnA /\ Len(Saves) = 2

\* C4 as stated: two toggles of one item in immediate succession restore
\* the selection (content and order), the row markers and the summary.
C4_TwiceRestoresAll ==
  IsTogglePair =>
    /\ Sel(hist[1].list) = hist[1].items
    /\ RowsOf(hist[1].list) = hist[1].rows
    /\ ChipsOf(hist[1].list) = hist[1].chips

MovedToEnd(items, index) ==
  [k \in 1..Len(items) |->
     IF k < index THEN items[k] ELSE IF k < Len(items) THEN items[k + 1] ELSE items[index]]

\* C4 amended: two toggles of one item in immediate succession restore the
\* row markers and the members (by slug) of the selection; order and summary
\* are restored when the item was unselected or was the last entry, otherwise
\* the item ends up last in the selection and in the summary.
C4_TwiceRestoresMembers ==
  IsTogglePair =>
    LET h == hist[1]
        index == FindIndex(h.items, h.slug)
        now == Slugs(Sel(h.list))
        chipsNow == Slugs(ChipsOf(h.list))
    IN  /\ RowsOf(h.list) = h.rows
        /\ Range(now) = Range(Slugs(h.items))
        /\ Len(now) = Len(h.items)
        /\ IF index = 0 \/ index = Len(h.items)
             THEN now = Slugs(h.items) /\ chipsNow = Slugs(h.chips)
             ELSE /\ now = Slugs(MovedToEnd(h.items, index))
                  /\ chipsNow = Slugs(MovedToEnd(h.items, index))

\* C4 witness: the item toggled twice was selected and was not the last entry.
C4_Witness ==
  /\ IsTogglePair
  /\ FindIndex(hist[1].items, hist[1].slug) = 1
  /\ Len(hist[1].items) = 2

\* C5: toggling an item that is not selected adds it, toggling it again
\* removes it, and the selection has its prior content and order.
C5_AddThenRemove ==
  (IsTogglePair /\ FindIndex(hist[1].items, hist[1].slug) = 0) =>
    /\ Len(hist[2].items) = Len(hist[1].items) + 1
    /\ SubSeq(hist[2].items, 1, Len(hist[1].items)) = hist[1].items
    /\ Last(hist[2].items).slug = hist[1].slug
    /\ Sel(hist[1].list) = hist[1].items

\* C5 witness: the item was added to a non-empty selection and removed again.
C5_Witness ==
  /\ IsTogglePair
  /\ FindIndex(hist[1].items, hist[1].slug) = 0
  /\ hist[1].items # <<>>

\* C6: right after a toggle the summary holds one chip per member of the
\* updated selection, in the selection's order, and nothing else.
C6_SummaryRebuilt ==
  LastIsToggle =>
    LET chips == ChipsOf(Last(hist).list)
        items == Sel(Last(hist).list)
    IN  /\ Len(chips) = Len(items)
        /\ \A i \in 1..Len(items) :
             chips[i].slug = items[i].slug /\ chips[i].name = items[i].name

\* C6 witness: a toggle removed one of two members; one chip is left.
C6_Witness ==
  /\ LastIsToggle
  /\ Len(Last(hist).chips) = 2
  /\ Len(ChipsOf(Last(hist).list)) = 1

\* C7: a click on an element without a slug changes neither the selections,
\* the rows nor the summaries, and issues no call.
C7_NoSlugNoOp ==
  [][NoSlugStep =>
       UNCHANGED <<selectedAuthors, selectedTags, authorSelect, tagSelect,
                   selectedAuthorsEl, selectedTagsEl, states, log>>]_vars

\* C7 witness: such a click happened with rows and chips on display.
C7_Witness ==
  /\ hist # <<>>
  /\ Last(hist).op = "noslug"
  /\ Last(hist).rows # <<>>
  /\ Last(hist).chips # <<>>

EventsOf(k) == {i \in 1..Len(log) : log[i].kind = "event" /\ log[i].cause = k}
FetchesOf(k) == {i \in 1..Len(log) : IsCall(log[i], "fetch_a_quote") /\ log[i].cause = k}

\* exactly one config-changed event carrying the config, then one fetch
Followed(k) ==
  \E i \in (k + 1)..(Len(log) - 1) :
    /\ EventsOf(k) = {i}
    /\ FetchesOf(k) = {i + 1}
    /\ log[i].type = "config-changed"
    /\ log[i].bubbles /\ log[i].composed
    /\ Payload(log[i + 1]).entity_id = log[i].detail.config.entity
NotFollowed(k) == EventsOf(k) = {} /\ FetchesOf(k) = {}

\* C8 as stated: every update_configuration call that resolved, whatever the
\* value, is followed by one config-changed event and then one fetch_a_quote
\* call; a call that has not resolved is followed by neither.
C8_AnyResolution ==
  \A k \in 1..Len(log) :
    IsUpdate(log[k]) => IF log[k].st = "resolved" THEN Followed(k) ELSE NotFollowed(k)

\* C8 amended: the event and the fetch follow exactly the update calls that
\* resolved to a truthy value, and the event carries the config the editor
\* holds when the call resolves.
C8_TruthyResolution ==
  /\ [](\A k \in 1..Len(log) :
          IsUpdate(log[k]) =>
            IF log[k].st = "resolved" /\ log[k].res # Undefined
              THEN Followed(k) ELSE NotFollowed(k))
  /\ [][\A k \in 1..Len(log) :
          (Pending(k, "update_configuration") /\ log'[k].st = "resolved"
             /\ log'[k].res # Undefined) =>
            /\ Len(log') = Len(log) + 2
            /\ log'[Len(log) + 1].detail.config = config
            /\ UNCHANGED config]_vars

\* C8 witness: one update resolved to an object, another to undefined.
C8_Witness ==
  /\ \E k \in 1..Len(log) : IsUpdate(log[k]) /\ log[k].st = "resolved" /\ log[k].res = Ack
  /\ \E k \in 1..Len(log) : IsUpdate(log[k]) /\ log[k].st = "resolved" /\ log[k].res = Undefined

RejectedUpdate(k) == IsUpdate(log[k]) /\ log[k].st = "rejected"

\* the step in which update call k rejects
RejectStep(k) == Pending(k, "update_configuration") /\ log'[k].st = "rejected"

\* C9: when update_configuration rejects, no event is dispatched, no
\* fetch_a_quote is issued, nothing escapes, and selections, colours,
\* interval and candidate lists keep their values.
C9_FailQuiet ==
  /\ [](\A k \in 1..Len(log) : RejectedUpdate(k) => NotFollowed(k))
  /\ [][\A k \in 1..Len(log) :
          RejectStep(k) =>
            /\ Len(log') = Len(log)
            /\ \A i \in 1..Len(log) : i # k => log'[i] = log[i]
            /\ UNCHANGED <<authors, initial_authors, selectedAuthors, tags, selectedTags,
                           intervalValue, selectedBgColor, selectedTextColor, states,
                           rendered, authorSelect, tagSelect, selectedAuthorsEl,
                           selectedTagsEl, uncaught>>]_vars

\* C9 witness: an update call was rejected while a selection was not empty.
C9_Witness ==
  /\ \E k \in 1..Len(log) : RejectedUpdate(k)
  /\ selectedAuthors # Undefined /\ selectedAuthors.v # <<>>

\* the step issues an update_configuration call
SaveStep == Len(log') = Len(log) + 1 /\ IsUpdate(Last(log'))

\* C10: the payload's update_frequency is parseInt(interval) * 60 for a
\* numeric interval value and 0 for a non-numeric one.
C10_FrequencyOrZero ==
  [][SaveStep =>
       Payload(Last(log')).update_frequency =
         IF parseInt(intervalValue').t = "number"
           THEN Num(parseInt(intervalValue').v * 60)
           ELSE Num(0)]_vars

\* ---------------------------------------------- vocabulary of C11..C20
FocusOutStep == ops' = ops + 1 /\ hist' # <<>> /\ Last(hist').op = "focusout"
RestoreStep == ops' = ops + 1 /\ hist' # <<>> /\ Last(hist').op = "restore"

\* the message of lines 399-416, from the fields as the step leaves them
UpdateMessage ==
  [domain |-> "quotable", service |-> "update_configuration", type |-> "call_service",
   return_response |-> FALSE,
   service_data |->
     [entity_id |-> config.entity,
      selected_tags |-> selectedTags',
      selected_authors |-> selectedAuthors',
      update_frequency |-> Times(parseInt(intervalValue'), 60),
      styles |-> [bg_color |-> selectedBgColor', text_color |-> selectedTextColor']]]

\* C11: a step that runs updateConfiguration (a click that carried a slug, a
\* focusout of the form) sends exactly one message: call_service to
\* quotable/update_configuration, return_response false, service_data made of
\* the configured entity, the two selections, parseInt(interval) * 60 and the
\* two colours as the editor holds them; no other step sends such a message.
C11_OneUpdateMessage ==
  [][/\ (ToggleStep \/ FocusOutStep) =>
          /\ Len(log') = Len(log) + 1
          /\ SubSeq(log', 1, Len(log)) = log
          /\ Last(log').kind = "call"
          /\ Last(log').st = "pending"
          /\ Last(log').msg = UpdateMessage
     /\ Len(SelectSeq(log', IsUpdate)) > Len(Saves) => (ToggleStep \/ FocusOutStep)]_vars

\* C11 witness: a focusout has sent the message after the background colour
\* was changed, with a tag selected and a numeric interval.
C11_Witness ==
  /\ hist # <<>> /\ Last(hist).op = "focusout"
  /\ IsUpdate(Last(log))
  /\ Payload(Last(log)).styles.bg_color = Color333333
  /\ Payload(Last(log)).selected_tags = Arr(<<TagT>>)
  /\ Payload(Last(log)).update_frequency = Num(540)

\* a load call of the given service has settled with the given status
LoadCall(service, status) ==
  \E k \in 1..Len(log) : IsCall(log[k], service) /\ log[k].st = status

\* the load call succeeded: it resolved and the response reports success
LoadSucceeded(service) ==
  \E k \in 1..Len(log) :
    IsCall(log[k], service) /\ log[k].st = "resolved" /\ log[k].res.success

NamesEntity == config # Undefined /\ config.entity # ""

\* the element is attached to the document, for the first time or again
AttachStep ==
  \/ ~connected /\ connected'
  \/ ops' = ops + 1 /\ hist' # <<>> /\ Last(hist').op = "attach"

\* the step in which load call k rejects
LoadRejectStep(k) ==
  /\ Pending(k, "fetch_all_authors") \/ Pending(k, "fetch_all_tags")
  /\ log'[k].st = "rejected"

\* C12: a load whose fetch_all_authors or fetch_all_tags rejects ends there:
\* the rejection renders nothing, issues no further call and leaves nothing
\* uncaught; a load that finds a config without entity issues no call and
\* renders nothing; and as long as no load has had both calls resolved the
\* form is not rendered and nothing is uncaught.
C12_AbortSilently ==
  /\ [][\A k \in 1..Len(log) :
          LoadRejectStep(k) =>
            /\ loadPc' = "aborted"
            /\ Len(log') = Len(log)
            /\ UNCHANGED <<rendered, authorSelect, tagSelect, selectedAuthorsEl,
                           selectedTagsEl, controls, uncaught>>]_vars
  /\ [][(AttachStep /\ config # Undefined /\ config.entity = "") =>
          /\ loadPc' = "aborted"
          /\ log' = log
          /\ UNCHANGED <<rendered, authorSelect, tagSelect, selectedAuthorsEl,
                         selectedTagsEl, controls, uncaught>>]_vars
  /\ [](\A k \in 1..Len(log) :
          (IsCall(log[k], "fetch_all_authors") /\ log[k].st = "rejected") =>
            ~\E j \in 1..Len(log) : IsCall(log[j], "fetch_all_tags") /\ log[j].cause = k)
  /\ [](~LoadCall("fetch_all_tags", "resolved") => ~rendered /\ uncaught = {})

\* C12 witness: fetch_all_tags has rejected after the author list was
\* loaded, no load got further, and the form is not rendered.
C12_Witness ==
  /\ LoadCall("fetch_all_tags", "rejected")
  /\ ~LoadCall("fetch_all_tags", "resolved")
  /\ authors # <<>>
  /\ NamesEntity
  /\ ~rendered /\ uncaught = {}

\* the stored state of the end-to-end example
ExampleState ==
  [t |-> "state",
   attributes |-> [selected_authors |-> Arr(<<AuthorA>>), selected_tags |-> Undefined,
                   styles |-> [t |-> "object", bg_color |-> Color111, text_color |-> Color222],
                   update_frequency |-> Num(600)]]

\* C13: with the example's stored state and both load calls successful, the
\* load is ready, the form is rendered, the slider shows 10 and the colour
\* pickers show #111 and #222.
C13_ExampleLoads ==
  (/\ states = ExampleState
   /\ LoadSucceeded("fetch_all_authors")
   /\ LoadSucceeded("fetch_all_tags")) =>
    /\ loadPc = "ready"
    /\ rendered
    /\ controls.slider = <<"1", "0">>
    /\ controls.bgColorPicker = Color111
    /\ controls.textColorPicker = Color222

\* the stored state lacks nothing the load reads
Complete(st) ==
  /\ st # Undefined
  /\ st.attributes.selected_authors # Undefined
  /\ st.attributes.selected_tags # Undefined
  /\ st.attributes.styles # Undefined
  /\ st.attributes.update_frequency # Undefined

\* the editor is attached while bound to the host and to a config naming an entity
AttachBound == ~connected /\ connected' /\ hass /\ NamesEntity

\* C14: whatever the stored state lacks, an editor attached with its binding
\* and config issues the load calls, and once fetch_all_tags has resolved the
\* form is rendered, nothing is uncaught and both selections are sequences.
C14_ToleratesAbsence ==
  /\ [][AttachBound => loadPc' = "authors" /\ log' # <<>>]_vars
  /\ [](LoadCall("fetch_all_tags", "resolved") =>
          /\ rendered
          /\ uncaught = {}
          /\ selectedAuthors # Undefined /\ selectedTags # Undefined)

\* C15: the form is rendered only when both load calls have resolved, and
\* when both have resolved the form is rendered.
C15_RenderedIffLoaded ==
  rendered <=>
    (LoadCall("fetch_all_authors", "resolved") /\ LoadCall("fetch_all_tags", "resolved"))

\* C16: whenever the editor is attached and holds the binding and a config
\* naming an entity, in whatever order the three arrived, the load has been
\* started (stored states without styles, the case of C14, set aside).
C16_LoadsInAnyOrder ==
  (/\ connected /\ hass /\ NamesEntity
   /\ (states = Undefined \/ states.attributes.styles # Undefined)) =>
    log # <<>> /\ IsCall(log[1], "fetch_all_authors")

\* ---------------------------------------------------- search claims
IsSearch(e) == IsCall(e, "search_authors")
SearchStep == ops' = ops + 1 /\ hist' # <<>> /\ Last(hist').op = "search"

\* what the response recorded for call k amounts to as an author list
ResultOf(e) == IF e.res.success THEN e.res.data ELSE <<>>

\* the step in which fetch_all_authors call k of a load resolves
LoadAuthorsResolveStep(k) == Pending(k, "fetch_all_authors") /\ log'[k].st = "resolved"

\* the rows show exactly the given authors, in order
Shows(rowsEl, list) ==
  /\ Len(rowsEl) = Len(list)
  /\ \A i \in 1..Len(list) :
       rowsEl[i].name = list[i].name /\ rowsEl[i].slug = list[i].slug

\* the step in which search call k resolves / rejects
SearchResolveStep(k) == Pending(k, "search_authors") /\ log'[k].st = "resolved"
SearchRejectStep(k) == Pending(k, "search_authors") /\ log'[k].st = "rejected"

\* C17: the load-time cache holds the data of the fetch_all_authors
\* response that resolved last and nothing else writes it; a search with the
\* empty query, whatever was searched before, makes the author list and the
\* rows shown that list, and issues no remote call.
C17_RestoresLoaded ==
  [][/\ \A k \in 1..Len(log) :
          LoadAuthorsResolveStep(k) => initial_authors' = ResultOf(log'[k])
     /\ (~\E k \in 1..Len(log) : LoadAuthorsResolveStep(k)) => UNCHANGED initial_authors
     /\ RestoreStep =>
          /\ authors' = initial_authors
          /\ Shows(authorSelect', initial_authors)
          /\ log' = log]_vars

\* C17 witness: the empty query came while a search result other than the
\* loaded list was displayed, and brought the loaded list back.
C17_Witness ==
  /\ hist # <<>> /\ Last(hist).op = "restore"
  /\ ResolvedSearch
  /\ Last(hist).items # authors
  /\ Last(hist).items # <<>>
  /\ authors = <<AuthorA, AuthorB>>

\* C18: a search with a non-empty query sends one call_service message to
\* quotable/search_authors with service_data {entity_id, query} and
\* return_response true; when it resolves, the author list is exactly the
\* data of the response, or empty if the response reports no success.
C18_ReplacesList ==
  [][/\ SearchStep =>
          /\ Len(log') = Len(log) + 1
          /\ SubSeq(log', 1, Len(log)) = log
          /\ Last(log').kind = "call"
          /\ Last(log').msg =
               [domain |-> "quotable", service |-> "search_authors",
                type |-> "call_service", return_response |-> TRUE,
                service_data |-> [entity_id |-> config.entity,
                                  query |-> Last(hist').query]]
          /\ Last(hist').query # ""
          /\ UNCHANGED <<authors, authorSelect>>
     /\ \A k \in 1..Len(log) :
          SearchResolveStep(k) =>
            /\ authors' = (IF log'[k].res.success THEN log'[k].res.data ELSE <<>>)
            /\ Shows(authorSelect', authors')]_vars

\* C18 witness: a search has resolved with one author, the list is that one
\* author and the loaded author A is gone from it.
C18_Witness ==
  /\ \E k \in 1..Len(log) :
       /\ IsSearch(log[k]) /\ log[k].st = "resolved"
       /\ log[k].res = Response(TRUE, <<AuthorB>>)
  /\ authors = <<AuthorB>>
  /\ initial_authors = <<AuthorA, AuthorB>>
  /\ Shows(authorSelect, <<AuthorB>>)

\* C19: when a search call rejects, the author list, the rows and every
\* other field and element stay as they were, and nothing is uncaught.
C19_SearchFailQuiet ==
  [][\A k \in 1..Len(log) :
       SearchRejectStep(k) =>
         /\ UNCHANGED <<authors, authorSelect>>
         /\ UNCHANGED <<initial_authors, selectedAuthors, tags, selectedTags,
                        intervalValue, selectedBgColor, selectedTextColor, states>>
         /\ UNCHANGED <<rendered, tagSelect, selectedAuthorsEl, selectedTagsEl,
                        controls, uncaught>>
         /\ Len(log') = Len(log)
         /\ \A i \in 1..Len(log) : i # k => log'[i] = log[i]]_vars

\* C19 witness: a search was rejected while a search result was displayed.
C19_Witness ==
  /\ \E k \in 1..Len(log) : IsSearch(log[k]) /\ log[k].st = "rejected"
  /\ ResolvedSearch
  /\ authors # <<>> /\ authors # initial_authors
  /\ uncaught = {}

\* search call k was issued before an input that came later
Superseded(k) ==
  \/ \E j \in (k + 1)..Len(log) : IsSearch(log[j])
  \/ hist # <<>> /\ Last(hist).op = "restore"

\* C20: a search in flight stays in flight when a later search is issued or
\* settles or the empty query restores the list, and when it resolves after
\* having been superseded its result still replaces the author list.
C20_NoCancellation ==
  [][\A k \in 1..Len(log) :
       /\ (Pending(k, "search_authors") /\ (SearchStep \/ RestoreStep)) =>
            log'[k] = log[k]
       /\ (Pending(k, "search_authors") /\
           \E j \in 1..Len(log) : j # k /\ (SearchResolveStep(j) \/ SearchRejectStep(j))) =>
            log'[k] = log[k]
       /\ (Superseded(k) /\ SearchResolveStep(k)) =>
            /\ authors' = ResultOf(log'[k])
            /\ Shows(authorSelect', ResultOf(log'[k]))]_vars

\* C20 witness: two searches, both resolved with success and different
\* data, and the list displayed is the result of the one issued first.
C20_Witness ==
  \E k, j \in 1..Len(log) :
    /\ k < j
    /\ IsSearch(log[k]) /\ IsSearch(log[j])
    /\ Payload(log[k]).query # Payload(log[j]).query
    /\ log[k].st = "resolved" /\ log[j].st = "resolved"
    /\ log[k].res.success /\ log[j].res.success
    /\ log[k].res.data # log[j].res.data
    /\ authors = log[k].res.data
    /\ Shows(authorSelect, log[k].res.data)

\* ---------------------------------------------- vocabulary of C21..C30
SliderStep == ops' = ops + 1 /\ hist' # <<>> /\ Last(hist').op = "slider"
ColorStep ==
  ops' = ops + 1 /\ hist' # <<>> /\ Last(hist').op \in {"bgcolor", "textcolor"}

\* the last input was of the given kind
LastInput(op) == hist # <<>> /\ Last(hist).op = op

\* the number of minutes a slider value v writes
Minutes(v) == CHOOSE n \in 1..60 : NatToString(n) = v

\* C21: a slider input reporting v leaves v as the interval value, and the
\* save that comes next carries update_frequency = v * 60.
C21_SliderToSeconds ==
  [][/\ SliderStep => intervalValue' = Last(hist').value
     /\ (LastInput("slider") /\ SaveStep) =>
          Payload(Last(log')).update_frequency = Num(Minutes(Last(hist).value) * 60)]_vars

\* C21 witness: the slider was set to 10 over a stored interval of 9.5
\* minutes and the save that followed carries 600 seconds.
C21_Witness ==
  /\ LastInput("focusout")
  /\ intervalValue = <<"1", "0">>
  /\ states # Undefined /\ states.attributes.update_frequency = Num(570)
  /\ IsUpdate(Last(log))
  /\ Payload(Last(log)).update_frequency = Num(600)

\* the payload holds the whole configuration as the editor holds it
FullConfiguration(data) ==
  /\ data.entity_id = config.entity
  /\ data.selected_authors = selectedAuthors'
  /\ data.selected_tags = selectedTags'
  /\ data.update_frequency = Times(parseInt(intervalValue'), 60)
  /\ data.styles = [bg_color |-> selectedBgColor', text_color |-> selectedTextColor']

\* C22 as stated: every toggle, slider input and colour input issues an
\* update_configuration call carrying the full configuration.
C22_EveryInputSaves ==
  [][(ToggleStep \/ SliderStep \/ ColorStep) =>
       SaveStep /\ FullConfiguration(Payload(Last(log')))]_vars

\* C22 amended: a toggle issues the call in its own step; a slider or colour
\* input issues none, and the next call, issued by a toggle or by the
\* focusout of the form, carries the full configuration with the value the
\* input reported.
C22_SavedOnToggleOrFocusOut ==
  [][/\ ToggleStep => SaveStep /\ FullConfiguration(Payload(Last(log')))
     /\ (SliderStep \/ ColorStep) => log' = log
     /\ SaveStep =>
          /\ ToggleStep \/ FocusOutStep
          /\ FullConfiguration(Payload(Last(log')))
          /\ LastInput("slider") =>
               Payload(Last(log')).update_frequency = Num(Minutes(Last(hist).value) * 60)
          /\ LastInput("bgcolor") =>
               Payload(Last(log')).styles.bg_color = Last(hist).value
          /\ LastInput("textcolor") =>
               Payload(Last(log')).styles.text_color = Last(hist).value]_vars

\* C22 witness: the text colour was changed and the focusout of the form
\* has sent it, with the stored selection of authors.
C22_Witness ==
  /\ LastInput("focusout")
  /\ IsUpdate(Last(log))
  /\ Len(Saves) = 1
  /\ Payload(Last(log)).styles.text_color = Color333333
  /\ Payload(Last(log)).selected_authors = Arr(<<AuthorA, AuthorB>>)

\* the save was issued by a focusout before any other input
UntouchedSave == FocusOutStep /\ ops = 0 /\ states # Undefined

\* C23: a focusout that follows the load with no input in between sends
\* selected_authors and selected_tags equal to the stored attributes, in
\* the stored order.
C23_SelectionRoundTrip ==
  [][UntouchedSave =>
       /\ SaveStep
       /\ Payload(Last(log')).selected_authors = states.attributes.selected_authors
       /\ Payload(Last(log')).selected_tags = states.attributes.selected_tags]_vars

\* C23 witness: the one input was a focusout, and the call carries the two
\* stored authors and the stored tag.
C23_Witness ==
  /\ LastInput("focusout") /\ ops = 1
  /\ shared = {"authors", "tags"}
  /\ states.attributes.selected_authors = Arr(<<AuthorA, AuthorB>>)
  /\ Payload(Last(Saves)).selected_authors = Arr(<<AuthorA, AuthorB>>)
  /\ Payload(Last(Saves)).selected_tags = Arr(<<TagT>>)

IsFetchQuote(e) == IsCall(e, "fetch_a_quote")
Quotes(l) == SelectSeq(l, IsFetchQuote)

\* the editor's fields and its config keep their values
EditorUnchanged ==
  UNCHANGED <<authors, initial_authors, selectedAuthors, tags, selectedTags,
              intervalValue, selectedBgColor, selectedTextColor, config>>

\* C24: a save acknowledged by the backend is followed by exactly one
\* fetch_a_quote call, for the configured entity and with return_response
\* true; neither issuing it nor its response changes a field of the editor.
C24_QuoteRefresh ==
  [][/\ \A k \in 1..Len(log) :
          (Pending(k, "update_configuration") /\ log'[k].st = "resolved"
             /\ log'[k].res # Undefined) =>
            /\ Len(Quotes(log')) = Len(Quotes(log)) + 1
            /\ IsFetchQuote(Last(log'))
            /\ Last(log').msg =
                 [domain |-> "quotable", service |-> "fetch_a_quote",
                  type |-> "call_service", return_response |-> TRUE,
                  service_data |-> [entity_id |-> config.entity]]
            /\ EditorUnchanged
     /\ Len(Quotes(log')) > Len(Quotes(log)) =>
          \E k \in 1..Len(log) :
            Pending(k, "update_configuration") /\ log'[k].st = "resolved"
     /\ \A k \in 1..Len(log) :
          (Pending(k, "fetch_a_quote") /\ log'[k].st # "pending") =>
            /\ EditorUnchanged
            /\ UNCHANGED dom]_vars

\* C24 witness: a quote refresh has resolved while a tag was selected.
C24_Witness ==
  /\ \E k \in 1..Len(log) : IsFetchQuote(log[k]) /\ log[k].st = "resolved"
  /\ selectedTags # Undefined /\ selectedTags.v # <<>>
  /\ Len(Quotes(log)) = 1

\* C25: when fetch_all_tags resolves, the second of the two load calls, the
\* tag list is the data of its response, the author list and the load-time
\* cache are the data of the fetch_all_authors response (empty for a
\* response without success), and the form is rendered.
C25_LoadedLists ==
  [][\A k \in 1..Len(log) :
       (Pending(k, "fetch_all_tags") /\ log'[k].st = "resolved") =>
         /\ tags' = ResultOf(log'[k])
         /\ authors' = ResultOf(log[log[k].cause])
         /\ initial_authors' = authors'
         /\ rendered']_vars

\* the reference toggle on sequences
RefToggle(items, c) ==
  IF \E i \in 1..Len(items) : items[i].slug = c.slug
    THEN LET i == CHOOSE n \in 1..Len(items) :
                    /\ items[n].slug = c.slug
                    /\ \A m \in 1..(n - 1) : items[m].slug # c.slug
         IN  SubSeq(items, 1, i - 1) \o SubSeq(items, i + 1, Len(items))
    ELSE items \o <<c>>

\* the names the elements carrying the slug show
NamesOf(c, slug) ==
  {c.rows[i].name : i \in {n \in 1..Len(c.rows) : c.rows[n].slug = slug}} \cup
  {c.chips[i].name : i \in {n \in 1..Len(c.chips) : c.chips[n].slug = slug}}

\* C26: a click that carries a slug leaves the selection equal to the
\* reference toggle of the selection it found: the first entry with the slug
\* removed and the others kept in order, or else {name, slug} of the clicked
\* element appended.
C26_ToggleIsReference ==
  [][ToggleStep =>
       \E n \in NamesOf(Last(hist'), Last(hist').slug) :
         SelAfter(Last(hist').list) =
           RefToggle(Last(hist').items, Candidate(n, Last(hist').slug))]_vars

\* C26 witness: the first of two stored authors was toggled off and the
\* second is what remains.
C26_Witness ==
  /\ LastIsToggle /\ Last(hist).list = "authors"
  /\ Last(hist).items = <<AuthorA, AuthorB>>
  /\ Last(hist).slug = "a"
  /\ selectedAuthors = Arr(<<AuthorB>>)

\* C27: once the form is rendered, a step that is not a click carrying a
\* slug leaves both selections as they are.
C27_OnlyToggleSelects ==
  [][(rendered /\ ~ToggleStep) => UNCHANGED <<selectedAuthors, selectedTags>>]_vars

\* C27 witness: a search has resolved, a save was acknowledged and its
\* quote refresh has settled, and the stored selection is still in place.
C27_Witness ==
  /\ \E k \in 1..Len(log) : IsFetchQuote(log[k]) /\ log[k].st # "pending"
  /\ ResolvedSearch
  /\ selectedAuthors = Arr(<<AuthorA, AuthorB>>)
  /\ selectedTags = Arr(<<TagT>>)

\* C28: once the form is rendered, no step changes the host's state store.
C28_StoreOnlyRead ==
  [][rendered => UNCHANGED states]_vars

\* C29: when fetch_a_quote rejects, nothing becomes uncaught and no field
\* of the editor changes.
C29_QuoteFailQuiet ==
  [][\A k \in 1..Len(log) :
       (Pending(k, "fetch_a_quote") /\ log'[k].st = "rejected") =>
         /\ UNCHANGED uncaught
         /\ EditorUnchanged]_vars

\* C30: a focusout that follows the load with no input in between sends the
\* stored update_frequency.
C30_IntervalRoundTrip ==
  [][(UntouchedSave /\ states.attributes.update_frequency # Undefined) =>
       Payload(Last(log')).update_frequency = states.attributes.update_frequency]_vars

====
